---- MODULE Spec2Model ----
(***************************************************************************)
(* A model of glimpse_sensor (src/modules.py, lines 11-102): one call of   *)
(* extract(x, l) on a sensor constructed with (g, k, s).                   *)
(*                                                                         *)
(* Tensors.  The image batch x has shape (B, H, W, C).  Its pixels are     *)
(* canonical: the pixel of image n at row r, column c (0-based) is the     *)
(* triple <<n, r, c>>, so every read of the wrong image or of the wrong    *)
(* place shows in the result.  No slice of the code touches the channel    *)
(* axis (it is always ':'), so a pixel stands for its whole channel vector *)
(* and C is carried in the shapes only.                                    *)
(* Images are square (H = W), the case the sensor is written for:          *)
(* _extract_single_patch denormalizes both axes with x.size()[1] = H.      *)
(*                                                                         *)
(* Locations.  l is the record [dtype, val]: val is the sequence of the L  *)
(* rows <<lx, ly>> of the (L, 2) tensor.  A coordinate is stored as its    *)
(* numerator over LocDen, so that fractions of [-1, 1] are exact; an       *)
(* integer ("long") tensor holds multiples of LocDen only.                 *)
(*                                                                         *)
(* Scale.  s is the pair <<num, den>> standing for num/den.  The           *)
(* denominators used are powers of two, for which Python's float product   *)
(* s * size is exact and int() is the floor.                               *)
(*                                                                         *)
(* Indexing follows PyTorch >= 0.4 (a slice may be empty) and Python's     *)
(* slice rules (a negative bound counts from the end, then both bounds are *)
(* clamped to the extent).                                                 *)
(***************************************************************************)
EXTENDS Integers, Sequences, FiniteSets

VARIABLES g, k, s, x, l, pc, i, size, coords, phi, res, out, err

vars == <<g, k, s, x, l, pc, i, size, coords, phi, res, out, err>>

(***************************************************************************)
(* Bounds of the model.                                                    *)
(***************************************************************************)
MaxB == 3
MaxG == 2
MaxK == 3
MaxH == 4
LocDen == 2

\* The scales s = num/den that a sensor is constructed with.
Scales == {<<1, 2>>, <<3, 2>>, <<2, 1>>}

\* Numbers of channels of the image batch.
Channels == {1}

\* The locations of one sample in an integer tensor: corners, centre, and
\* one location off the diagonal.
LongLocs == {<<-LocDen, -LocDen>>, <<0, 0>>, <<LocDen, LocDen>>, <<0, LocDen>>}

\* The locations of one sample in a float tensor: fractions of [-1, 1].
FloatLocs == {<<-1, 1>>, <<0, LocDen>>}

LocsOf(dtype) == IF dtype = "long" THEN LongLocs ELSE FloatLocs

\* The numbers of locations given with B images: fewer than B, B, or one
\* more than B.
LocCounts(B) == 1..(IF B < MaxB THEN B + 1 ELSE MaxB)

(***************************************************************************)
(* Helpers: Python and tensor semantics.                                   *)
(***************************************************************************)
\* One bound of a Python slice over an axis of extent n: a negative bound
\* counts from the end, then the bound is clamped to [0, n].
SliceBound(a, n) ==
  LET w == IF a < 0 THEN a + n ELSE a
  IN  IF w < 0 THEN 0 ELSE IF w > n THEN n ELSE w

\* The 0-based indices selected by a:b over an axis of extent n, in order.
SliceIdx(a, b, n) ==
  LET lo == SliceBound(a, n)
      hi == SliceBound(b, n)
  IN  [j \in 1..(IF hi > lo THEN hi - lo ELSE 0) |-> lo + j - 1]

\* Image n of the batch, sliced rows a:b and columns c:d (line 98).
SliceImage(x_, n, a, b, c, d) ==
  LET rows == SliceIdx(a, b, x_.H)
      cols == SliceIdx(c, d, x_.W)
  IN  [h  |-> Len(rows),
       w  |-> Len(cols),
       px |-> [r \in 1..Len(rows) |-> [q \in 1..Len(cols) |->
                 <<x_.img[n], rows[r], cols[q]>>]]]

(***************************************************************************)
(* glimpse_sensor._denormalize (lines 66-69).                              *)
(***************************************************************************)
\* int(T/2)
Half(T) == T \div 2

\* torch.mul(c, int(T/2)) + int(T/2), as a numerator over LocDen.
DenormCoordCeil(T, c) == c * Half(T) + LocDen * (T - Half(T))
DenormCoord(T, c) == c * Half(T) + LocDen * Half(T)

\* torch.stack([x_original, y_original]): a tensor of shape (2, L) whose
\* row 1 holds every sample's x and whose row 2 holds every sample's y.
_denormalize(T, coords_) ==
  [dtype |-> coords_.dtype,
   val   |-> << [j \in 1..Len(coords_.val) |-> DenormCoord(T, coords_.val[j][1])],
                [j \in 1..Len(coords_.val) |-> DenormCoord(T, coords_.val[j][2])] >>]

(***************************************************************************)
(* glimpse_sensor._extract_single_patch (lines 71-102).                    *)
(***************************************************************************)
\* coords[:, j] - (size // 2) for the 0-based column j of the (2, L) tensor
\* (lines 91-92): a vector of length 2.
PatchStart(cs, j, size_) ==
  [t \in 1..2 |-> cs.val[t][j + 1] - LocDen * (size_ \div 2)]

\* The result of the call: err is "none" and patch is the (B, h, w, C)
\* tensor, or err names the exception raised.  at[n] is the pair of starts
\* used to slice image n.
_extract_single_patch(x_, center, size_) ==
  LET B  == Len(x_.img)
      cs == _denormalize(x_.H, center)
      raised(e) == [err |-> e, size |-> size_, at |-> <<>>,
                    shape |-> <<>>, px |-> <<>>]
  IN  IF Len(center.val) < 2
      THEN raised("IndexError")              \* coords[:, 1], line 92
      ELSE
        LET patch_x == PatchStart(cs, 0, size_)
            patch_y == PatchStart(cs, 1, size_)
            ix(n) == patch_x[n] \div LocDen
            iy(n) == patch_y[n] \div LocDen
            p(n) == SliceImage(x_, n, ix(n), ix(n) + size_,
                                      iy(n), iy(n) + size_)
        IN  IF cs.dtype # "long"
            THEN raised("TypeError")         \* a float is no slice index
            ELSE IF B > 2
            THEN raised("IndexError")        \* patch_x[2], line 98
            ELSE IF \E n \in 1..B : p(n).h # p(1).h \/ p(n).w # p(1).w
            THEN raised("RuntimeError")      \* torch.cat, line 100
            ELSE [err   |-> "none",
                  size  |-> size_,
                  at    |-> [n \in 1..B |-> <<ix(n), iy(n)>>],
                  shape |-> <<B, p(1).h, p(1).w, x_.C>>,
                  px    |-> [n \in 1..B |-> p(n).px]]

(***************************************************************************)
(* utils.resize_array: the source of utils is not part of src/; modelled   *)
(* from the specification.  Every image of the (B, h, w, C) array is       *)
(* resampled to exactly size x size (here: nearest source pixel) and the   *)
(* result is given a patch axis: (B, 1, size, size, C).  The specification *)
(* names no failure of this step.  What an array without pixels is         *)
(* resampled to is not specified: NoPixel, the pixel of no image, stands   *)
(* for it.                                                                 *)
(***************************************************************************)
NoPixel == <<0, -1, -1>>

resize_array(p, size_) ==
  LET B == p.shape[1]
      h == p.shape[2]
      w == p.shape[3]
  IN  [via   |-> "resize_array",
       shape |-> <<B, 1, size_, size_, p.shape[4]>>,
       px    |-> [n \in 1..B |-> [r \in 1..size_ |-> [q \in 1..size_ |->
                   IF h = 0 \/ w = 0
                   THEN NoPixel
                   ELSE p.px[n][((r - 1) * h) \div size_ + 1]
                               [((q - 1) * w) \div size_ + 1]]]]]

\* np.expand_dims(p, 1): the same pixels with a patch axis (line 59).
expand_dims(p) ==
  [via   |-> "expand_dims",
   shape |-> <<p.shape[1], 1, p.shape[2], p.shape[3], p.shape[4]>>,
   px    |-> p.px]

(***************************************************************************)
(* glimpse_sensor.extract (lines 45-64).                                   *)
(***************************************************************************)
\* int(self.s * size), line 52
NextSizeTruncScale(s_, size_) == (s_[1] \div s_[2]) * size_
NextSizeCeil(s_, size_) == (s_[1] * size_ + s_[2] - 1) \div s_[2]
NextSize(s_, size_) == (s_[1] * size_) \div s_[2]

\* p.shape[1] != self.g, line 58
NeedsResizeAlways(p, g_) == TRUE
NeedsResize(p, g_) == p.shape[2] # g_

\* One element of the list comprehension of lines 58-59.
ResizeOne(p, g_) ==
  IF NeedsResize(p, g_) THEN resize_array(p, g_) ELSE expand_dims(p)

\* np.concatenate(phi, 1), line 62: the arrays must agree on every axis
\* but the patch axis.
SameButAxis1(a, b) ==
  /\ a[1] = b[1] /\ a[3] = b[3] /\ a[4] = b[4] /\ a[5] = b[5]

CanConcatenate(rs) == \A j \in 1..Len(rs) : SameButAxis1(rs[j].shape, rs[1].shape)

concatenate(rs) ==
  [shape |-> <<rs[1].shape[1], Len(rs), rs[1].shape[3], rs[1].shape[4],
               rs[1].shape[5]>>,
   px    |-> [n \in 1..rs[1].shape[1] |-> [j \in 1..Len(rs) |-> rs[j].px[n]]]]

\* The size passed to the patch extraction of loop index j (lines 47, 52).
RECURSIVE SizeAt(_, _, _)
SizeAt(g_, s_, j) ==
  IF j = 0 THEN g_ ELSE NextSize(s_, SizeAt(g_, s_, j - 1))

NoTensor == [shape |-> <<>>, px |-> <<>>]

\* The whole call as a function of the sensor and its arguments: the
\* exception it raises, or the tensor it returns.
extract(g_, k_, s_, x_, l_) ==
  LET ps  == [j \in 1..k_ |-> _extract_single_patch(x_, l_, SizeAt(g_, s_, j - 1))]
      rs  == [j \in 1..k_ |-> ResizeOne(ps[j], g_)]
      bad == {j \in 1..k_ : ps[j].err # "none"}
  IN  IF bad # {}
      THEN [err |-> ps[CHOOSE j \in bad : \A j2 \in bad : j <= j2].err,
            out |-> NoTensor]
      ELSE IF ~CanConcatenate(rs)
      THEN [err |-> "ValueError", out |-> NoTensor]
      ELSE [err |-> "none", out |-> concatenate(rs)]

(***************************************************************************)
(* The state machine of one call.                                          *)
(*   pc = "loop"     in lines 48-59: i patches extracted; with i = k the   *)
(*                   loop is over and the patches are to be resized        *)
(*   pc = "concat"   before line 62                                        *)
(*   pc = "done"     extract returned out                                  *)
(*   pc = "raised"   extract raised err                                    *)
(***************************************************************************)
Init ==
  /\ g \in 1..MaxG
  /\ k \in 1..MaxK
  /\ s \in Scales
  /\ \E B \in 1..MaxB, H \in 1..MaxH, C \in Channels :
       /\ x = [img |-> [n \in 1..B |-> n], H |-> H, W |-> H, C |-> C]
       /\ \E dtype \in {"long", "float"}, L \in LocCounts(B) :
            \E val \in [1..L -> LocsOf(dtype)] :
              l = [dtype |-> dtype, val |-> val]
  /\ pc = "loop"
  /\ i = 0
  /\ size = g
  /\ coords = <<>>
  /\ phi = <<>>
  /\ res = <<>>
  /\ out = NoTensor
  /\ err = "none"

\* Lines 48-52: one turn of the loop whose patch extraction succeeds.
ExtractPatch ==
  /\ pc = "loop" /\ i < k
  /\ LET p == _extract_single_patch(x, l, size)
     IN  /\ p.err = "none"
         /\ phi' = Append(phi, p)
  /\ coords' = _denormalize(x.H, l).val
  /\ size' = NextSize(s, size)
  /\ i' = i + 1
  /\ UNCHANGED <<g, k, s, x, l, pc, res, out, err>>

\* Lines 48-50: the patch extraction raises and so does extract.
ExtractPatchRaises ==
  /\ pc = "loop" /\ i < k
  /\ LET p == _extract_single_patch(x, l, size)
     IN  /\ p.err # "none"
         /\ err' = p.err
  /\ coords' = _denormalize(x.H, l).val
  /\ pc' = "raised"
  /\ UNCHANGED <<g, k, s, x, l, i, size, phi, res, out>>

\* Lines 55-59: every patch is resized or given its patch axis.
ResizePatches ==
  /\ pc = "loop" /\ i = k
  /\ res' = [j \in 1..Len(phi) |-> ResizeOne(phi[j], g)]
  /\ pc' = "concat"
  /\ UNCHANGED <<g, k, s, x, l, i, size, coords, phi, out, err>>

\* Lines 62-64: the patches are concatenated and returned.
Concatenate ==
  /\ pc = "concat"
  /\ CanConcatenate(res)
  /\ out' = concatenate(res)
  /\ pc' = "done"
  /\ UNCHANGED <<g, k, s, x, l, i, size, coords, phi, res, err>>

\* Line 62: np.concatenate raises on arrays of different shapes.
ConcatenateRaises ==
  /\ pc = "concat"
  /\ ~CanConcatenate(res)
  /\ err' = "ValueError"
  /\ pc' = "raised"
  /\ UNCHANGED <<g, k, s, x, l, i, size, coords, phi, res, out>>

Next ==
  \/ ExtractPatch
  \/ ExtractPatchRaises
  \/ ResizePatches
  \/ Concatenate
  \/ ConcatenateRaises

Spec == Init /\ [][Next]_vars

(***************************************************************************)
(* Properties.                                                             *)
(***************************************************************************)
NumImages == Len(x.img)
NumLocs == Len(l.val)

RECURSIVE Pow(_, _)
Pow(a, n) == IF n = 0 THEN 1 ELSE a * Pow(a, n - 1)

\* The steps of the call compute what extract computes.
StepsAgreeWithExtract ==
  /\ pc = "done" => extract(g, k, s, x, l) = [err |-> "none", out |-> out]
  /\ pc = "raised" => extract(g, k, s, x, l) = [err |-> err, out |-> NoTensor]

\* The pixel index of sample n's own location on axis t (1: x, 2: y).
OwnPixel(n, t) == DenormCoord(x.H, l.val[n][t]) \div LocDen

\* The batch of the single image n, and of its single location.
Sample(x_, n) == [x_ EXCEPT !.img = <<x_.img[n]>>]
SampleLoc(l_, n) == [l_ EXCEPT !.val = <<l_.val[n]>>]

\* C1: batch independence.  Whenever extract returns for a batch of B
\* images and B locations, its result at sample n is the result of extract
\* on sample n alone (B = 1) with its own location.
C1_BatchIndependence ==
  (pc = "done" /\ NumLocs = NumImages) =>
    \A n \in 1..NumImages :
      LET alone == extract(g, k, s, Sample(x, n), SampleLoc(l, n))
      IN  /\ alone.err = "none"
          /\ alone.out.px[1] = out.px[n]

\* C2: output shape.  Whenever extract returns for B images and B
\* locations with coordinates in [-1, 1], the result has the shape
\* (B, k, g, g, C), also when a patch lies partly outside the image.
C2_OutputShape ==
  (pc = "done" /\ NumLocs = NumImages) =>
    out.shape = <<NumImages, k, g, g, x.C>>

\* The g x g region of image n whose corner is the sample's own pixel
\* minus g // 2 on each axis, and whether it lies inside the image.
OwnCorner(n, t) == OwnPixel(n, t) - (g \div 2)
OwnRegionInside(n) ==
  /\ 0 <= OwnCorner(n, 1) /\ OwnCorner(n, 1) + g <= x.H
  /\ 0 <= OwnCorner(n, 2) /\ OwnCorner(n, 2) + g <= x.W
OwnCrop(n) ==
  [r \in 1..g |-> [q \in 1..g |->
     <<x.img[n], OwnCorner(n, 1) + r - 1, OwnCorner(n, 2) + q - 1>>]]

\* C3: with k = 1, extract returns the g x g crop of every sample's image
\* centred at the sample's own denormalized location, not resized, shaped
\* (B, 1, g, g, C).  Stated for the regions that lie inside the image.
C3_SinglePatchIsCrop ==
  (/\ pc = "done" /\ k = 1 /\ NumLocs = NumImages
   /\ \A n \in 1..NumImages : OwnRegionInside(n)) =>
    /\ out.shape = <<NumImages, 1, g, g, x.C>>
    /\ \A n \in 1..NumImages : out.px[n] = <<OwnCrop(n)>>
    /\ res[1].via = "expand_dims"

\* floor(s^j * g)
ClosedFormSize(j) == (Pow(s[1], j) * g) \div Pow(s[2], j)

\* C4 as stated: the size passed to the patch extraction of index j is
\* floor(s^j * g), for every g, k and s (here on B images and B locations).
C4_ClosedForm ==
  NumLocs = NumImages =>
    \A j \in 1..Len(phi) : phi[j].size = ClosedFormSize(j - 1)

\* C4, amended: the sizes follow size_0 = g, size_(j+1) = floor(s * size_j);
\* that is floor(s^j * g) when s is an integer, and never more than it.
C4_Recurrence ==
  \A j \in 1..Len(phi) :
    /\ j = 1 => phi[j].size = g
    /\ j > 1 => /\ s[2] * phi[j].size <= s[1] * phi[j - 1].size
                /\ s[1] * phi[j - 1].size < s[2] * (phi[j].size + 1)
    /\ phi[j].size <= ClosedFormSize(j - 1)
    /\ s[1] % s[2] = 0 => phi[j].size = ClosedFormSize(j - 1)

\* Three patches were extracted with a non-integer scale and the third size
\* is smaller than floor(s^2 * g).
C4_Witness ==
  /\ NumLocs = NumImages
  /\ Len(phi) >= 3
  /\ s[1] % s[2] # 0
  /\ phi[3].size < ClosedFormSize(2)

\* C5 as stated: for s > 1 the sizes are strictly increasing (here on B
\* images and B locations).
C5_StrictlyIncreasing ==
  (s[1] > s[2] /\ NumLocs = NumImages) =>
    \A j \in 1..(Len(phi) - 1) : phi[j + 1].size > phi[j].size

\* C5, amended: for s > 1 the sizes never decrease, and size_(j+1) is
\* larger than size_j exactly when (s - 1) * size_j >= 1.
C5_NonDecreasing ==
  s[1] > s[2] =>
    \A j \in 1..(Len(phi) - 1) :
      /\ phi[j + 1].size >= phi[j].size
      /\ phi[j + 1].size > phi[j].size
           <=> (s[1] - s[2]) * phi[j].size >= s[2]

\* With s > 1, the second patch was extracted with the size of the first.
C5_Witness ==
  /\ s[1] > s[2]
  /\ NumLocs = NumImages
  /\ Len(phi) >= 2
  /\ phi[2].size = phi[1].size

\* The extracted patch j lies wholly inside the image: no slice was cut, it
\* has size_j rows and size_j columns.
Uncut(j) ==
  phi[j].shape[2] = phi[j].size /\ phi[j].shape[3] = phi[j].size

\* The slice of the returned tensor at patch index j, and patch j as
\* resize_array returns it.
OutSlice(j) == [n \in 1..NumImages |-> out.px[n][j]]

\* C6 as stated: a patch whose requested side equals g is copied unchanged
\* and a patch whose requested side differs from g goes through
\* resize_array (here on B images and B locations).
C6_FastPathBySize ==
  (Len(res) > 0 /\ NumLocs = NumImages) =>
    \A j \in 1..Len(phi) :
      /\ phi[j].size = g =>
           res[j].via = "expand_dims" /\ res[j].px = phi[j].px
      /\ phi[j].size # g => res[j].via = "resize_array"

\* C6, amended: for every patch that lies wholly inside the image, once the
\* patches are resized: with size_j = g the patch is not given to
\* resize_array and the output slice at patch index j is the extracted
\* patch, pixel for pixel; with size_j # g the patch goes through
\* resize_array to g x g, and that is the output slice.
C6_FastPathUncut ==
  Len(res) > 0 =>
    /\ Len(res) = k /\ Len(phi) = k
    /\ \A j \in 1..k :
         Uncut(j) =>
           /\ phi[j].size = g =>
                /\ res[j].via = "expand_dims"
                /\ res[j].px = phi[j].px
                /\ res[j].shape = <<NumImages, 1, g, g, x.C>>
                /\ pc = "done" => OutSlice(j) = phi[j].px
           /\ phi[j].size # g =>
                /\ res[j].via = "resize_array"
                /\ res[j].shape = <<NumImages, 1, g, g, x.C>>
                /\ pc = "done" => OutSlice(j) = resize_array(phi[j], g).px

\* extract returned for B images and B locations; one patch inside the
\* image had side g and is the output slice as extracted, another had a
\* larger side and went through resize_array.
C6_Witness ==
  /\ pc = "done"
  /\ NumLocs = NumImages
  /\ \E j \in 1..k :
       /\ Uncut(j) /\ phi[j].size = g /\ g > 1
       /\ res[j].via = "expand_dims" /\ OutSlice(j) = phi[j].px
  /\ \E j \in 1..k :
       /\ Uncut(j) /\ phi[j].size > g
       /\ res[j].via = "resize_array"

\* C7: with a number of locations different from the number of images,
\* extract never returns, and what it raises is InvalidArgument.
C7_MismatchRejected ==
  NumLocs # NumImages =>
    /\ pc # "done"
    /\ pc = "raised" => err = "InvalidArgument"

\* C8: _denormalize maps every coordinate c of every sample, on both axes,
\* to c * floor(T/2) + floor(T/2): 0 to floor(T/2), -1 to 0, and every c in
\* [-1, 1] into [0, T].  (Coordinates and pixels are numerators over
\* LocDen.)
C8_Denormalize ==
  coords # <<>> =>
    /\ Len(coords) = 2
    /\ \A t \in 1..2 :
         /\ Len(coords[t]) = NumLocs
         /\ \A j \in 1..NumLocs :
              LET c  == l.val[j][t]
                  px == coords[t][j]
                  T  == x.H
              IN  /\ LocDen * px = c * LocDen * (T \div 2) + LocDen * LocDen * (T \div 2)
                  /\ c = 0 => px = LocDen * (T \div 2)
                  /\ c = -LocDen => px = 0
                  /\ 0 <= px /\ px <= LocDen * T

\* _denormalize ran on an image of odd extent with a fractional coordinate
\* and with the coordinates 0 and 1.
C8_Witness ==
  /\ coords # <<>>
  /\ x.H % 2 = 1 /\ x.H > 1
  /\ \E j \in 1..NumLocs : l.val[j][1] % LocDen # 0 /\ l.val[j][2] % LocDen # 0
  /\ \E j \in 1..NumLocs : l.val[j] = <<0, LocDen>>

\* C9: every patch extraction slices the image of sample n from the corner
\* (pixel_x_n - size // 2, pixel_y_n - size // 2) of the sample's own
\* denormalized location (on B images and B locations).
C9_OwnCorner ==
  NumLocs = NumImages =>
    \A j \in 1..Len(phi) : \A n \in 1..NumImages :
      phi[j].at[n] = <<OwnPixel(n, 1) - (phi[j].size \div 2),
                       OwnPixel(n, 2) - (phi[j].size \div 2)>>

\* The part of the region of side size_ at corner (a, c) that lies in the
\* image n: the region clamped to the image.
Clamp(a, n) == IF a < 0 THEN 0 ELSE IF a > n THEN n ELSE a
ClampedCrop(n, a, c, size_) ==
  LET r0 == Clamp(a, x.H)
      r1 == Clamp(a + size_, x.H)
      c0 == Clamp(c, x.W)
      c1 == Clamp(c + size_, x.W)
  IN  [r \in 1..(r1 - r0) |-> [q \in 1..(c1 - c0) |->
         <<x.img[n], r0 + r - 1, c0 + q - 1>>]]

\* C10: every extracted patch is the requested region clamped to the image,
\* and no extraction raises because a region leaves the image (torch.cat
\* raises RuntimeError on patches cut to different shapes).
C10_ClampedRegion ==
  NumLocs = NumImages =>
    /\ \A j \in 1..Len(phi) : \A n \in 1..NumImages :
         phi[j].px[n] = ClampedCrop(n, phi[j].at[n][1], phi[j].at[n][2],
                                    phi[j].size)
    /\ err # "RuntimeError"
====
